---- MODULE Spec2Model ----
(***************************************************************************)
(* Model of src/utils/chatbot_assistant.py (GeneHack chatbot assistant).   *)
(*                                                                         *)
(* The module keeps one caller-owned message list (chat_history) and the   *)
(* credential read at import time (GEMINI_API_KEY).  Every public function *)
(* is an operator computing what the Python code computes, including the   *)
(* control flow of its try/except blocks: a value of the form              *)
(* [kind |-> "return", value |-> v] is a normal return, and                *)
(* [kind |-> "raise", value |-> e] is an exception whose str() is e.       *)
(* The remote model is the environment: each call receives one of the      *)
(* outcomes in RemoteOutcomes.                                             *)
(***************************************************************************)
EXTENDS Integers, Sequences, FiniteSets, TLC

VARIABLES
    GEMINI_API_KEY,   \* the credential read from the environment at import
    chat_history,     \* the caller's message list
    old_history,      \* the caller's message list before the last call
    call,             \* the last call: operation, arguments, remote outcome
    result,           \* what the last call returned (or raised)
    sent              \* the prompts handed to the remote model by the last call

vars == <<GEMINI_API_KEY, chat_history, old_history, call, result, sent>>

---------------------------------------------------------------------------
(* Bounds *)

MaxHistory == 5

---------------------------------------------------------------------------
(* Python outcomes *)

Ret(v) == [kind |-> "return", value |-> v]

Raise(e) == [kind |-> "raise", value |-> e]

---------------------------------------------------------------------------
(* Inputs *)

Roles == {"system", "user", "assistant"}

\* os.environ.get("GEMINI_API_KEY", ""): unset gives the empty string
ApiKeys == {"", "AIza-key"}

UserMessages == {"What is blaKPC?", "Which antibiotics fail?"}

\* analysis_data: JSON-serializable mappings, named by their content
AnalysisData == {"empty", "one_gene"}

\* str(e) of the exceptions generate_content can raise
ApiErrors == {"503 Service Unavailable"}

\* str(e) of the exceptions the response.text accessor can raise
TextErrors == {"response.text requires a valid Part"}

\* texts the remote model can answer with
ReplyTexts ==
    { "{\"suggested_questions\": [\"q1\"], \"research_directions\": []}",
      "~~~json\n{\"suggested_questions\": []}\n~~~",
      "blaKPC encodes a carbapenemase." }

\* what model.generate_content does in one call: it raises, or it returns a
\* response whose .text accessor raises or yields a text
RemoteOutcomes ==
    { [generate |-> Raise(e)] : e \in ApiErrors }
    \cup { [generate |-> Ret([text |-> Raise(e)])] : e \in TextErrors }
    \cup { [generate |-> Ret([text |-> Ret(t)])] : t \in ReplyTexts }

---------------------------------------------------------------------------
(* Constants of the module *)

\* lines 22-37, cut after its first sentence
SYSTEM_PROMPT == "\nYou are GeneHack Assistant, an AI expert in antimicrobial resistance (AMR) genomics.\n"


\* lines 74, 168: the fixed strings of the no-credential paths
NO_KEY_CHAT_RESPONSE == "Error: Gemini API key is not configured. Please add your API key."

NO_KEY_SUMMARY == "Gemini API key is not configured. Please add your API key."

\* lines 103-115: the object returned when no credential is configured
NoCredentialSuggestions ==
    [ suggested_questions |->
        << "What are the most common resistance mechanisms in this sample?",
           "Which antibiotics should be avoided based on this analysis?",
           "What are the key resistance genes identified?",
           "How do these genes confer resistance?" >>,
      research_directions |->
        << "Investigate the prevalence of these resistance genes in your region",
           "Test alternative antibiotics not affected by these mechanisms",
           "Compare this resistance profile with clinical outcomes" >> ]

\* mutant: the copy of the list in the except branch has drifted from the first
FallbackSuggestions_drifted ==
    [ suggested_questions |->
        << "What are the most common resistance mechanisms in this sample?",
           "Which antibiotics should be avoided based on this analysis?",
           "What are the key resistance genes identified?" >>,
      research_directions |->
        << "Investigate the prevalence of these resistance genes in your region",
           "Test alternative antibiotics not affected by these mechanisms",
           "Compare this resistance profile with clinical outcomes" >> ]

\* lines 145-157: the object returned by the outer except branch
FallbackSuggestions ==
    [ suggested_questions |->
        << "What are the most common resistance mechanisms in this sample?",
           "Which antibiotics should be avoided based on this analysis?",
           "What are the key resistance genes identified?",
           "How do these genes confer resistance?" >>,
      research_directions |->
        << "Investigate the prevalence of these resistance genes in your region",
           "Test alternative antibiotics not affected by these mechanisms",
           "Compare this resistance profile with clinical outcomes" >> ]

---------------------------------------------------------------------------
(* Library functions, by what they do on the modelled values *)

\* json.dumps(analysis_data, indent=2)
json_dumps(analysis_data) ==
    CASE analysis_data = "empty"    -> "{}"
      [] analysis_data = "one_gene" -> "{\n  \"gene\": \"blaKPC\"\n}"

\* json.loads(text): the parsed value, or a JSONDecodeError
json_loads(text) ==
    CASE text = "{\"suggested_questions\": [\"q1\"], \"research_directions\": []}"
              -> Ret([suggested_questions |-> <<"q1">>, research_directions |-> <<>>])
      [] OTHER -> Raise("Expecting value: line 1 column 1 (char 0)")

\* str.capitalize() on the role names
capitalize(role) ==
    CASE role = "system"    -> "System"
      [] role = "user"      -> "User"
      [] role = "assistant" -> "Assistant"

\* "\n".join(lines)
RECURSIVE join(_)
join(lines) ==
    IF lines = <<>> THEN ""
    ELSE IF Len(lines) = 1 THEN lines[1]
    ELSE lines[1] \o "\n" \o join(Tail(lines))

\* the remote model: the prompt is handed over, the environment decides
generate_content(prompt, remote) == remote.generate

\* reading response.text, when there is a response to read it from
response_text(response) ==
    IF response.kind = "return" THEN response.value.text ELSE response

---------------------------------------------------------------------------
(* Chat history *)

\* mutant: the test is written as GEMINI_API_KEY is None, and "" is not None
KeyMissing_is_none(key) == FALSE

\* lines 72, 102, 167: not GEMINI_API_KEY
KeyMissing(key) == key = ""

\* lines 42-46
initialize_chat_history == << [role |-> "system", content |-> SYSTEM_PROMPT] >>

\* lines 53-57; the Markdown fence of three grave accents is written ~~~,
\* since a grave accent inside a string upsets the lexer
context_message(analysis_data) ==
    [ role |-> "system",
      content |-> "Here is the current analysis data:\n~~~json\n"
                  \o json_dumps(analysis_data)
                  \o "\n~~~\nUse this information to answer the user's questions." ]

\* mutant: the context is always appended
add_analysis_context_append(history, analysis_data) ==
    Append(history, context_message(analysis_data))

\* mutant: the tail is taken from index 2, dropping history[1]
add_analysis_context_drop(history, analysis_data) ==
    IF Len(history) > 1
    THEN <<history[1], context_message(analysis_data)>> \o Tail(Tail(history))
    ELSE history \o <<context_message(analysis_data)>>

\* mutant: the context goes in front of the last entry
add_analysis_context_last(history, analysis_data) ==
    IF Len(history) > 1
    THEN SubSeq(history, 1, Len(history) - 1)
         \o <<context_message(analysis_data), history[Len(history)]>>
    ELSE history \o <<context_message(analysis_data)>>

\* lines 49-62
add_analysis_context(history, analysis_data) ==
    IF Len(history) > 1
    THEN <<history[1], context_message(analysis_data)>> \o Tail(history)
    ELSE history \o <<context_message(analysis_data)>>

---------------------------------------------------------------------------
(* Chat with Gemini *)

\* line 78
user_turn(user_message) == [role |-> "user", content |-> user_message]

\* line 87
assistant_turn(assistant_message) == [role |-> "assistant", content |-> assistant_message]

\* mutant: only the newest message is sent
history_text_newest(history) ==
    capitalize(history[Len(history)].role) \o ": " \o history[Len(history)].content

\* line 82
history_text(history) ==
    join([i \in 1..Len(history) |->
            capitalize(history[i].role) \o ": " \o history[i].content])

\* mutant: the user message is appended before the credential is tested
chat_with_assistant_append_first(key, history, user_message, remote) ==
    LET appended == Append(history, user_turn(user_message)) IN
    IF KeyMissing(key)
    THEN [ outcome |-> Ret([response |-> NO_KEY_CHAT_RESPONSE, chat_history |-> appended]),
           chat_history |-> appended,
           sent |-> <<>> ]
    ELSE LET prompt == history_text(appended)
             assistant_message == response_text(generate_content(prompt, remote))
         IN  IF assistant_message.kind = "return"
             THEN LET replied == Append(appended, assistant_turn(assistant_message.value))
                  IN  [ outcome |-> Ret([response |-> assistant_message.value,
                                         chat_history |-> replied]),
                        chat_history |-> replied,
                        sent |-> <<prompt>> ]
             ELSE [ outcome |-> Ret([response |-> "Error communicating with Gemini: "
                                                  \o assistant_message.value,
                                     chat_history |-> appended]),
                    chat_history |-> appended,
                    sent |-> <<prompt>> ]

\* mutant: the except branch records the error as an assistant message
chat_with_assistant_logs_error(key, history, user_message, remote) ==
    IF KeyMissing(key)
    THEN [ outcome |-> Ret([response |-> NO_KEY_CHAT_RESPONSE, chat_history |-> history]),
           chat_history |-> history,
           sent |-> <<>> ]
    ELSE LET appended == Append(history, user_turn(user_message))
             prompt == history_text(appended)
             assistant_message == response_text(generate_content(prompt, remote))
         IN  IF assistant_message.kind = "return"
             THEN LET replied == Append(appended, assistant_turn(assistant_message.value))
                  IN  [ outcome |-> Ret([response |-> assistant_message.value,
                                         chat_history |-> replied]),
                        chat_history |-> replied,
                        sent |-> <<prompt>> ]
             ELSE LET logged == Append(appended,
                                       assistant_turn("Error communicating with Gemini: "
                                                      \o assistant_message.value))
                  IN  [ outcome |-> Ret([response |-> "Error communicating with Gemini: "
                                                      \o assistant_message.value,
                                         chat_history |-> logged]),
                        chat_history |-> logged,
                        sent |-> <<prompt>> ]

\* lines 68-92.  outcome is what the caller receives, chat_history is the
\* list passed in as the call leaves it (the code appends in place and the
\* returned dict holds the same list), sent is the prompts handed over.
chat_with_assistant(key, history, user_message, remote) ==
    IF KeyMissing(key)
    THEN [ outcome |-> Ret([response |-> NO_KEY_CHAT_RESPONSE, chat_history |-> history]),
           chat_history |-> history,
           sent |-> <<>> ]
    ELSE LET appended == Append(history, user_turn(user_message))
             prompt == history_text(appended)
             \* lines 84-85: either statement may raise
             assistant_message == response_text(generate_content(prompt, remote))
         IN  IF assistant_message.kind = "return"
             THEN LET replied == Append(appended, assistant_turn(assistant_message.value))
                  IN  [ outcome |-> Ret([response |-> assistant_message.value,
                                         chat_history |-> replied]),
                        chat_history |-> replied,
                        sent |-> <<prompt>> ]
             ELSE \* lines 91-92
                  [ outcome |-> Ret([response |-> "Error communicating with Gemini: "
                                                  \o assistant_message.value,
                                     chat_history |-> appended]),
                    chat_history |-> appended,
                    sent |-> <<prompt>> ]

---------------------------------------------------------------------------
(* Suggestions generator *)

\* lines 118-134
suggestion_prompt(analysis_data) ==
    "\n        Please analyze the following antimicrobial resistance data and generate:\n"
    \o "        1. Five suggested questions a researcher might want to ask about this data\n"
    \o "        2. Three potential research directions based on these results\n\n"
    \o "        Data:\n        ~~~json\n        "
    \o json_dumps(analysis_data)
    \o "\n        ~~~\n\n        Return your response in JSON format:\n        {\n"
    \o "            \"suggested_questions\": [\"question1\", \"question2\", ...],\n"
    \o "            \"research_directions\": [\"direction1\", \"direction2\", ...]\n"
    \o "        }\n        "

\* mutant: an unparsable reply degrades to the static list
parse_reply_static(response) ==
    LET suggestions == IF response.text.kind = "return"
                       THEN json_loads(response.text.value)
                       ELSE response.text
    IN  IF suggestions.kind = "return"
        THEN suggestions
        ELSE Ret(NoCredentialSuggestions)

\* lines 138-142: the inner try and its bare except, which reads
\* response.text a second time
parse_reply(response) ==
    LET suggestions == IF response.text.kind = "return"
                       THEN json_loads(response.text.value)
                       ELSE response.text
    IN  IF suggestions.kind = "return"
        THEN suggestions
        ELSE IF response.text.kind = "return"
             THEN Ret([error |-> "Failed to parse Gemini response",
                       raw |-> response.text.value])
             ELSE response.text

\* mutant: the handler catches the errors of the API call only
suggestions_except_api_only(body) ==
    IF body.kind = "raise" /\ body.value \in ApiErrors
    THEN Ret(FallbackSuggestions)
    ELSE body

\* lines 144-157: except Exception around the whole body
suggestions_except(body) ==
    IF body.kind = "raise" THEN Ret(FallbackSuggestions) ELSE body

\* lines 98-157
generate_analysis_suggestions(key, analysis_data, remote) ==
    IF KeyMissing(key)
    THEN [outcome |-> Ret(NoCredentialSuggestions), sent |-> <<>>]
    ELSE LET prompt == suggestion_prompt(analysis_data)
             response == generate_content(prompt, remote)
             body == IF response.kind = "return"
                     THEN parse_reply(response.value)
                     ELSE response
         IN  [outcome |-> suggestions_except(body), sent |-> <<prompt>>]

---------------------------------------------------------------------------
(* Summary generator *)

\* lines 171-184
summary_prompt(analysis_data) ==
    "\n        Please analyze the following antimicrobial resistance data and create a concise summary (250 words max)\n"
    \o "        highlighting the key findings, focusing on:\n\n"
    \o "        1. The most significant resistance genes and mechanisms\n"
    \o "        2. Antibiotics that would be most and least effective\n"
    \o "        3. Any unusual or noteworthy patterns\n\n"
    \o "        Data:\n        ~~~json\n        "
    \o json_dumps(analysis_data)
    \o "\n        ~~~\n        "

\* lines 163-190
summarize_key_findings(key, analysis_data, remote) ==
    IF KeyMissing(key)
    THEN [outcome |-> Ret(NO_KEY_SUMMARY), sent |-> <<>>]
    ELSE LET prompt == summary_prompt(analysis_data)
             text == response_text(generate_content(prompt, remote))
         IN  IF text.kind = "return"
             THEN [outcome |-> Ret(text.value), sent |-> <<prompt>>]
             ELSE [outcome |-> Ret("Error generating summary: " \o text.value),
                   sent |-> <<prompt>>]

---------------------------------------------------------------------------
(* The session: the credential is fixed at import, the caller holds one     *)
(* history made by initialize_chat_history and passes it to every call.     *)

Init ==
    /\ GEMINI_API_KEY \in ApiKeys
    /\ chat_history = initialize_chat_history
    /\ old_history = initialize_chat_history
    /\ call = [op |-> "initialize_chat_history"]
    /\ result = Ret(initialize_chat_history)
    /\ sent = <<>>

\* the caller keeps the list add_analysis_context returns as its history
AddAnalysisContext ==
    /\ Len(chat_history) < MaxHistory
    /\ \E analysis_data \in AnalysisData :
          /\ chat_history' = add_analysis_context(chat_history, analysis_data)
          /\ result' = Ret(add_analysis_context(chat_history, analysis_data))
          /\ call' = [op |-> "add_analysis_context", analysis_data |-> analysis_data]
    /\ old_history' = chat_history
    /\ sent' = <<>>
    /\ UNCHANGED GEMINI_API_KEY

ChatWithAssistant ==
    /\ Len(chat_history) + 2 <= MaxHistory
    /\ \E user_message \in UserMessages, remote \in RemoteOutcomes :
          LET done == chat_with_assistant(GEMINI_API_KEY, chat_history,
                                          user_message, remote)
          IN  /\ chat_history' = done.chat_history
              /\ result' = done.outcome
              /\ sent' = done.sent
              /\ call' = [op |-> "chat_with_assistant",
                          user_message |-> user_message, remote |-> remote]
    /\ old_history' = chat_history
    /\ UNCHANGED GEMINI_API_KEY

GenerateAnalysisSuggestions ==
    /\ \E analysis_data \in AnalysisData, remote \in RemoteOutcomes :
          LET done == generate_analysis_suggestions(GEMINI_API_KEY, analysis_data, remote)
          IN  /\ result' = done.outcome
              /\ sent' = done.sent
              /\ call' = [op |-> "generate_analysis_suggestions",
                          analysis_data |-> analysis_data, remote |-> remote]
    /\ old_history' = chat_history
    /\ UNCHANGED <<GEMINI_API_KEY, chat_history>>

SummarizeKeyFindings ==
    /\ \E analysis_data \in AnalysisData, remote \in RemoteOutcomes :
          LET done == summarize_key_findings(GEMINI_API_KEY, analysis_data, remote)
          IN  /\ result' = done.outcome
              /\ sent' = done.sent
              /\ call' = [op |-> "summarize_key_findings",
                          analysis_data |-> analysis_data, remote |-> remote]
    /\ old_history' = chat_history
    /\ UNCHANGED <<GEMINI_API_KEY, chat_history>>

Next ==
    \/ AddAnalysisContext
    \/ ChatWithAssistant
    \/ GenerateAnalysisSuggestions
    \/ SummarizeKeyFindings

Spec == Init /\ [][Next]_vars

---------------------------------------------------------------------------
(* Vocabulary of the properties *)

NoKey == GEMINI_API_KEY = ""

IsChat == call.op = "chat_with_assistant"

IsSuggestions == call.op = "generate_analysis_suggestions"

IsSummary == call.op = "summarize_key_findings"

IsContext == call.op = "add_analysis_context"

\* the remote call and the reading of its text both succeed
RemoteSucceeds ==
    /\ call.remote.generate.kind = "return"
    /\ call.remote.generate.value.text.kind = "return"

\* the text of a successful remote call
RemoteText == call.remote.generate.value.text.value

\* str(e) of the failure of a failing remote call
RemoteFailure ==
    IF call.remote.generate.kind = "raise"
    THEN call.remote.generate.value
    ELSE call.remote.generate.value.text.value

\* Role: content of every message, one per line, built from the left
Flattened(history) ==
    LET label == [system |-> "System", user |-> "User", assistant |-> "Assistant"]
        line(m) == label[m.role] \o ": " \o m.content
        upto[i \in 1..Len(history)] ==
            IF i = 1 THEN line(history[1])
            ELSE upto[i - 1] \o "\n" \o line(history[i])
    IN  upto[Len(history)]

Indices(history, role) == {i \in 1..Len(history) : history[i].role = role}

IsPrefix(s, t) == Len(s) <= Len(t) /\ SubSeq(t, 1, Len(s)) = s

---------------------------------------------------------------------------
(* C1 *)

\* C1 as stated: with no credential, chat_with_assistant returns the fixed
\* error string and a chat_history one longer than the history passed in,
\* whose last entry is the user message.
C1_NoKeyHistoryHasUserMessage ==
    (IsChat /\ NoKey) =>
        /\ result.kind = "return"
        /\ result.value.response
             = "Error: Gemini API key is not configured. Please add your API key."
        /\ Len(result.value.chat_history) = Len(old_history) + 1
        /\ result.value.chat_history[Len(result.value.chat_history)]
             = [role |-> "user", content |-> call.user_message]

\* C1 as amended: with no credential, chat_with_assistant returns the fixed
\* error string and the history exactly as it was passed in; the user message
\* is not appended, neither to the returned chat_history nor to the list of
\* the caller.
C1_NoKeyHistoryUnchanged ==
    (IsChat /\ NoKey) =>
        /\ result.kind = "return"
        /\ result.value.response
             = "Error: Gemini API key is not configured. Please add your API key."
        /\ result.value.chat_history = old_history
        /\ chat_history = old_history

C1_Witness ==
    /\ IsChat /\ NoKey
    /\ old_history = initialize_chat_history
    /\ call.user_message = "What is blaKPC?"
    /\ Len(result.value.chat_history) = 1

---------------------------------------------------------------------------
(* C2 *)

\* C2: with no credential, no call hands a prompt to the remote model, and
\* each of the three functions returns its fixed result; the history holds
\* no assistant message after chat_with_assistant.
C2_NoKeyNoRemoteCall ==
    NoKey =>
        /\ sent = <<>>
        /\ IsChat =>
             /\ result.kind = "return"
             /\ result.value.response
                  = "Error: Gemini API key is not configured. Please add your API key."
             /\ Indices(chat_history, "assistant") = {}
             /\ Indices(result.value.chat_history, "assistant") = {}
        /\ IsSuggestions =>
             /\ result.kind = "return"
             /\ DOMAIN result.value = {"suggested_questions", "research_directions"}
             /\ result.value.suggested_questions[1]
                  = "What are the most common resistance mechanisms in this sample?"
             /\ Len(result.value.suggested_questions) = 4
             /\ Len(result.value.research_directions) = 3
        /\ IsSummary =>
             result = Ret("Gemini API key is not configured. Please add your API key.")

C2_Witness ==
    /\ NoKey /\ IsSummary
    /\ RemoteSucceeds
    /\ Len(chat_history) > 1

---------------------------------------------------------------------------
(* C3 *)

\* C3: add_analysis_context returns a sequence one longer than the history,
\* with one new system-role context message: at index 1 (the second entry)
\* when the history has more than one entry, the rest kept in order around
\* it, and as the last entry otherwise.
C3_ContextPlacement ==
    IsContext =>
        /\ result.kind = "return"
        /\ LET h == old_history
               r == result.value
               ctx == [ role |-> "system",
                        content |-> "Here is the current analysis data:\n~~~json\n"
                                    \o json_dumps(call.analysis_data)
                                    \o "\n~~~\nUse this information to answer the user's questions." ]
           IN  /\ Len(r) = Len(h) + 1
               /\ IF Len(h) > 1
                  THEN /\ r[2] = ctx
                       /\ r[1] = h[1]
                       /\ \A i \in 2..Len(h) : r[i + 1] = h[i]
                  ELSE /\ r[Len(r)] = ctx
                       /\ \A i \in 1..Len(h) : r[i] = h[i]

C3_Witness ==
    /\ IsContext
    /\ Len(old_history) = 3
    /\ old_history[3].role = "assistant"
    /\ result.value[2].role = "system"
    /\ result.value[4] = old_history[3]

---------------------------------------------------------------------------
(* C4 *)

\* C4: with a credential and a successful remote call, chat_with_assistant
\* extends the history by the user message and then the assistant message,
\* leaves the earlier entries alone, sends as its one prompt the flattening
\* of the history up to and including the user message, and returns the
\* text of the assistant message.
C4_SuccessAppendsUserThenAssistant ==
    (IsChat /\ ~NoKey /\ RemoteSucceeds) =>
        /\ chat_history
             = old_history \o << [role |-> "user", content |-> call.user_message],
                                 [role |-> "assistant", content |-> RemoteText] >>
        /\ sent = << Flattened(SubSeq(chat_history, 1, Len(old_history) + 1)) >>
        /\ result.kind = "return"
        /\ result.value.chat_history = chat_history
        /\ result.value.response = chat_history[Len(chat_history)].content

C4_Witness ==
    /\ IsChat /\ ~NoKey /\ RemoteSucceeds
    /\ Len(old_history) = 3
    /\ Len(chat_history) = 5
    /\ chat_history[5].role = "assistant"

---------------------------------------------------------------------------
(* C5 *)

\* C5: with a credential and a failing remote call (the call raises, or
\* reading its text raises), chat_with_assistant returns the error string
\* that embeds the failure text and extends the history by the user message
\* only.
C5_FailureKeepsUserMessageOnly ==
    (IsChat /\ ~NoKey /\ ~RemoteSucceeds) =>
        /\ result.kind = "return"
        /\ result.value.response = "Error communicating with Gemini: " \o RemoteFailure
        /\ chat_history
             = old_history \o << [role |-> "user", content |-> call.user_message] >>
        /\ result.value.chat_history = chat_history
        /\ Cardinality(Indices(chat_history, "assistant"))
             = Cardinality(Indices(old_history, "assistant"))

C5_Witness ==
    /\ IsChat /\ ~NoKey
    /\ call.remote.generate.kind = "return"
    /\ call.remote.generate.value.text.kind = "raise"
    /\ Len(old_history) >= 2
    /\ Len(chat_history) = Len(old_history) + 1

---------------------------------------------------------------------------
(* C6 *)

\* C6: whatever the remote call does, and with or without a credential,
\* each of the three functions returns a value of its result form and
\* raises nothing.
C6_NoExceptionEscapes ==
    /\ IsChat =>
         /\ result.kind = "return"
         /\ DOMAIN result.value = {"response", "chat_history"}
         /\ result.value.response \in STRING
    /\ IsSuggestions =>
         /\ result.kind = "return"
         /\ DOMAIN result.value \in { {"suggested_questions", "research_directions"},
                                      {"error", "raw"} }
    /\ IsSummary =>
         /\ result.kind = "return"
         /\ result.value \in STRING

C6_Witness ==
    /\ IsSuggestions /\ ~NoKey
    /\ call.remote.generate.kind = "return"
    /\ call.remote.generate.value.text.kind = "raise"
    /\ result.kind = "return"

---------------------------------------------------------------------------
(* C7 *)

\* C7: with a credential and a successful remote call, an unparsable reply
\* makes generate_analysis_suggestions return the object with the keys
\* error and raw, raw being the reply text, which is not the static object;
\* a parsable reply is returned as parsed.
C7_ParseFailureObject ==
    (IsSuggestions /\ ~NoKey /\ RemoteSucceeds) =>
        IF json_loads(RemoteText).kind = "raise"
        THEN /\ result.kind = "return"
             /\ DOMAIN result.value = {"error", "raw"}
             /\ result.value.raw = RemoteText
             /\ result.value.error = "Failed to parse Gemini response"
             /\ result.value # NoCredentialSuggestions
        ELSE result = json_loads(RemoteText)

C7_Witness ==
    /\ IsSuggestions /\ ~NoKey /\ RemoteSucceeds
    /\ RemoteText = "~~~json\n{\"suggested_questions\": []}\n~~~"
    /\ result.value.raw = RemoteText

---------------------------------------------------------------------------
(* C8 *)

\* C8: generate_analysis_suggestions returns one and the same static object,
\* four questions and three directions, when no credential is configured
\* and when the remote call raises, whatever the analysis data.
C8_SameStaticObject ==
    (IsSuggestions /\ (NoKey \/ call.remote.generate.kind = "raise")) =>
        /\ result = Ret(NoCredentialSuggestions)
        /\ Len(result.value.suggested_questions) = 4
        /\ Len(result.value.research_directions) = 3

C8_Witness ==
    /\ IsSuggestions /\ ~NoKey
    /\ call.remote.generate.kind = "raise"
    /\ call.analysis_data = "one_gene"
    /\ Len(result.value.suggested_questions) = 4

---------------------------------------------------------------------------
(* C9 *)

\* C9: every step keeps the initial system message first and either extends
\* the history at its end or splices one system message in as the second
\* entry; no entry is removed, changed or reordered.
C9_AppendOnlyButSplice ==
    [][ /\ chat_history'[1] = [role |-> "system", content |-> SYSTEM_PROMPT]
        /\ \/ IsPrefix(chat_history, chat_history')
           \/ /\ Len(chat_history) > 1
              /\ Len(chat_history') = Len(chat_history) + 1
              /\ chat_history'[1] = chat_history[1]
              /\ chat_history'[2].role = "system"
              /\ \A i \in 2..Len(chat_history) : chat_history'[i + 1] = chat_history[i]
      ]_vars

C9_Witness ==
    /\ IsContext
    /\ Len(chat_history) = 5
    /\ chat_history[2].role = "system"
    /\ chat_history[3].role = "system"
    /\ chat_history[4].role = "user"
    /\ chat_history[5].role = "assistant"

---------------------------------------------------------------------------
(* C10 *)

\* C10: every assistant message directly follows a user message, so there
\* are never more assistant messages than user messages.
C10_AssistantFollowsUser ==
    /\ \A i \in Indices(chat_history, "assistant") :
          i > 1 /\ chat_history[i - 1].role = "user"
    /\ Cardinality(Indices(chat_history, "assistant"))
         <= Cardinality(Indices(chat_history, "user"))

C10_Witness ==
    /\ IsContext
    /\ Len(chat_history) = 4
    /\ chat_history[3].role = "user"
    /\ chat_history[4].role = "assistant"
    /\ old_history[2].role = "user"

====
